---------------------------- MODULE Spec2Model ----------------------------
(***************************************************************************)
(* Model of Analog_Clock.py: the AnalogClock object (time fields, cached   *)
(* weather text, date text), its update / update_weather / get_theme /     *)
(* draw methods and the module-level main loop.                            *)
(*                                                                         *)
(* Representation                                                          *)
(*  - A Python str is a sequence of characters, each written as a string:  *)
(*    itself, its escape ("\n", "\t", "\r", "\f"), or its code point        *)
(*    ("U+00A0") when it has neither; the degree sign is written "deg".    *)
(*  - Angles are integers in micro-degrees (degrees * SCALE); the float    *)
(*    self.second (seconds with a fractional part) is the integer number   *)
(*    of microseconds second*SCALE + microsecond.                          *)
(*  - Hand lengths (size * 0.5, 0.7, 0.9) are kept in tenths of a pixel.   *)
(*  - The window is a recording surface: the sequence of pygame calls      *)
(*    issued on it since the last pygame.display.update().                 *)
(*  - The wall clock is the environment. Its hour is the variable          *)
(*    wallHour, which may advance between any two statements; the date and *)
(*    the sub-hour part of a reading are inputs of the reading.            *)
(***************************************************************************)
EXTENDS Integers, Sequences, FiniteSets

VARIABLES
    pc,            \* position of the main script
    hour,          \* self.hour
    minute,        \* self.minute
    second,        \* self.second, in microseconds
    current_date,  \* self.current_date; <<>> while the attribute is not set
    weather,       \* self.weather
    theme,         \* draw()'s local `theme` (key of THEMES); "none" outside draw
    surface,       \* pygame calls recorded on the window for the frame being drawn
    windowOpen,    \* FALSE once pygame.quit() has released the window
    wallHour,      \* hour of the wall clock (environment)
    now,           \* the reading datetime.now() returned to the last update()
    response,      \* what requests.get() produced in update_weather()
    fetches,       \* number of calls of update_weather() so far
    quitSeen,      \* the last event poll met a QUIT event
    phases         \* loop phases completed in the current iteration

vars == <<pc, hour, minute, second, current_date, weather, theme, surface,
          windowOpen, wallHour, now, response, fetches, quitSeen, phases>>

----------------------------------------------------------------------------
(* Bounds of the model *)

\* longest response body enumerated over {" ", "x"} (besides the fixed bodies)
MaxBodyLen == 2

\* longest batch of events one pygame.event.get() returns
MaxEvents == 2

\* hours the wall clock advances between two readings by update()
MaxClockSteps == 1

----------------------------------------------------------------------------
(* Program constants *)

SCALE == 1000000

\* AnalogClock(250, (300, 300))
CLOCK_SIZE == 250

CLOCK_POSITION == <<300, 300>>

HTTP_OK == 200

FETCHING == <<"F", "e", "t", "c", "h", "i", "n", "g", ".", ".", ".">>

FALLBACK ==
    <<"W", "e", "a", "t", "h", "e", "r", " ",
      "u", "n", "a", "v", "a", "i", "l", "a", "b", "l", "e">>

THEMES ==
    [light |->
        [background  |-> <<225, 239, 240>>,
         face_outer  |-> <<45, 45, 45>>,
         face_middle |-> <<229, 229, 229>>,
         face_inner  |-> <<255, 255, 255>>,
         hand_hour   |-> <<45, 45, 45>>,
         hand_minute |-> <<45, 45, 45>>,
         hand_second |-> <<255, 0, 0>>,
         mark_color  |-> <<45, 45, 45>>,
         shadow      |-> <<0, 0, 0, 50>>,
         text_color  |-> <<0, 0, 0>>],
     dark |->
        [background  |-> <<30, 30, 30>>,
         face_outer  |-> <<100, 100, 100>>,
         face_middle |-> <<70, 70, 70>>,
         face_inner  |-> <<50, 50, 50>>,
         hand_hour   |-> <<255, 255, 255>>,
         hand_minute |-> <<200, 200, 200>>,
         hand_second |-> <<255, 69, 0>>,
         mark_color  |-> <<255, 255, 255>>,
         shadow      |-> <<0, 0, 0, 80>>,
         text_color  |-> <<255, 255, 255>>]]

----------------------------------------------------------------------------
(* Text helpers *)

\* characters str.strip() removes: the 29 code points for which
\* str.isspace() holds (U+0009-000D, U+001C-001F, U+0020, U+0085, U+00A0,
\* U+1680, U+2000-200A, U+2028, U+2029, U+202F, U+205F, U+3000)
Whitespace ==
    {"\t", "\n", "U+000B", "\f", "\r",
     "U+001C", "U+001D", "U+001E", "U+001F", " ", "U+0085", "U+00A0",
     "U+1680", "U+2000", "U+2001", "U+2002", "U+2003", "U+2004", "U+2005",
     "U+2006", "U+2007", "U+2008", "U+2009", "U+200A", "U+2028", "U+2029",
     "U+202F", "U+205F", "U+3000"}

RECURSIVE lstrip(_)
lstrip(s) ==
    IF s # <<>> /\ Head(s) \in Whitespace THEN lstrip(Tail(s)) ELSE s

RECURSIVE rstrip(_)
rstrip(s) ==
    IF s # <<>> /\ s[Len(s)] \in Whitespace
    THEN rstrip(SubSeq(s, 1, Len(s) - 1))
    ELSE s

\* strip() that removes the leading whitespace only
strip_leading_only(s) == lstrip(s)

\* str.strip()
strip(s) == rstrip(lstrip(s))

DIGITS == <<"0", "1", "2", "3", "4", "5", "6", "7", "8", "9">>

Digit(n) == DIGITS[n + 1]

\* %d : day of the month, zero-padded to two digits
Pad2(n) == <<Digit(n \div 10), Digit(n % 10)>>

\* %Y : year with century (four digits for the years modelled)
Year4(y) ==
    <<Digit(y \div 1000), Digit((y \div 100) % 10),
      Digit((y \div 10) % 10), Digit(y % 10)>>

DAY_NAMES ==
    << <<"S", "u", "n", "d", "a", "y">>,
       <<"M", "o", "n", "d", "a", "y">>,
       <<"T", "u", "e", "s", "d", "a", "y">>,
       <<"W", "e", "d", "n", "e", "s", "d", "a", "y">>,
       <<"T", "h", "u", "r", "s", "d", "a", "y">>,
       <<"F", "r", "i", "d", "a", "y">>,
       <<"S", "a", "t", "u", "r", "d", "a", "y">> >>

MONTH_NAMES ==
    << <<"J", "a", "n", "u", "a", "r", "y">>,
       <<"F", "e", "b", "r", "u", "a", "r", "y">>,
       <<"M", "a", "r", "c", "h">>,
       <<"A", "p", "r", "i", "l">>,
       <<"M", "a", "y">>,
       <<"J", "u", "n", "e">>,
       <<"J", "u", "l", "y">>,
       <<"A", "u", "g", "u", "s", "t">>,
       <<"S", "e", "p", "t", "e", "m", "b", "e", "r">>,
       <<"O", "c", "t", "o", "b", "e", "r">>,
       <<"N", "o", "v", "e", "m", "b", "e", "r">>,
       <<"D", "e", "c", "e", "m", "b", "e", "r">> >>

MONTH_OFFSET == <<0, 3, 2, 5, 0, 3, 5, 1, 4, 6, 2, 4>>

\* day of the week of a Gregorian date, 0 = Sunday
Weekday(y, m, d) ==
    LET yy == IF m < 3 THEN y - 1 ELSE y
    IN  (yy + (yy \div 4) - (yy \div 100) + (yy \div 400)
            + MONTH_OFFSET[m] + d) % 7

\* now.strftime("%A, %B %d, %Y")
strftime(t) ==
    DAY_NAMES[Weekday(t.year, t.month, t.day) + 1] \o <<",", " ">>
        \o MONTH_NAMES[t.month] \o <<" ">> \o Pad2(t.day) \o <<",", " ">>
        \o Year4(t.year)

----------------------------------------------------------------------------
(* Inputs *)

Hours == 0 .. 23

\* date and sub-hour part of the clock readings enumerated
Samples ==
    { [year |-> 2025, month |-> 3, day |-> 23,
       minute |-> 0, second |-> 0, microsecond |-> 0],
      [year |-> 2025, month |-> 3, day |-> 23,
       minute |-> 59, second |-> 59, microsecond |-> 999999],
      [year |-> 2025, month |-> 3, day |-> 23,
       minute |-> 59, second |-> 59, microsecond |-> 1],
      [year |-> 2024, month |-> 12, day |-> 9,
       minute |-> 30, second |-> 15, microsecond |-> 500000],
      [year |-> 2024, month |-> 2, day |-> 29,
       minute |-> 1, second |-> 0, microsecond |-> 999999],
      [year |-> 2024, month |-> 2, day |-> 29,
       minute |-> 29, second |-> 30, microsecond |-> 0] }

\* a reading of datetime.now(): the wall clock's hour and one sample
Reading(h, s) ==
    [year |-> s.year, month |-> s.month, day |-> s.day, hour |-> h,
     minute |-> s.minute, second |-> s.second, microsecond |-> s.microsecond]

StartSample == CHOOSE s \in Samples : s.minute = 0

RECURSIVE SeqsUpTo(_, _)
SeqsUpTo(S, n) ==
    IF n = 0 THEN {<<>>}
    ELSE LET shorter == SeqsUpTo(S, n - 1)
         IN  shorter \cup {Append(q, c) : q \in shorter, c \in S}

\* " +14(degree sign)C Partly cloudy "; the degree sign is written "deg"
ExampleBody ==
    <<" ", "+", "1", "4", "deg", "C", " ", "P", "a", "r", "t", "l", "y", " ",
      "c", "l", "o", "u", "d", "y", " ">>

MixedBody == <<"\n", "\t", "x", "\t", "x", " ", "\n">>

\* "+14(degree sign)C Sunny" ended by a carriage return and a line feed
CrlfBody ==
    <<"+", "1", "4", "deg", "C", " ", "S", "u", "n", "n", "y", "\r", "\n">>

\* whitespace outside ASCII and the rarer control characters, at both ends
\* and inside
WideBody ==
    <<"U+00A0", "\f", "U+000B", "x", "U+3000", "\r", "y", "U+0085", "U+001C",
      "U+2028", "U+202F">>

Bodies ==
    SeqsUpTo({" ", "x"}, MaxBodyLen)
        \cup {ExampleBody, MixedBody, CrlfBody, WideBody}

NoResponse == [raised |-> FALSE, status_code |-> 0, text |-> <<>>]

\* outcomes of requests.get(): an exception, or a response object
Responses ==
    {[raised |-> TRUE, status_code |-> 0, text |-> <<>>]}
    \cup {[raised |-> FALSE, status_code |-> HTTP_OK, text |-> b] : b \in Bodies}
    \cup {[raised |-> FALSE, status_code |-> c, text |-> ExampleBody] :
            c \in {404, 500}}

EventBatches == SeqsUpTo({"QUIT", "OTHER"}, MaxEvents)

----------------------------------------------------------------------------
(* AnalogClock methods *)

\* self.hour without the reduction to the 12-hour dial
Hour24(t) == t.hour

\* update(): self.hour
Hour12(t) == t.hour % 12

\* self.second without the microseconds
SecondOf_whole(t) == t.second * SCALE

\* update(): self.second, in microseconds
SecondOf(t) == t.second * SCALE + t.microsecond

\* update_weather(): the value of self.weather on return, given its value on
\* entry and the outcome of requests.get()
update_weather(w, resp) ==
    IF resp.raised THEN FALLBACK
    ELSE IF resp.status_code = HTTP_OK THEN strip(resp.text)
    ELSE w

\* get_theme() with the evening boundary taken strictly
get_theme_after_18(current_hour) ==
    IF 18 < current_hour \/ current_hour < 6 THEN "dark" ELSE "light"

\* get_theme(): the key of THEMES selected for the hour read
get_theme(current_hour) ==
    IF 18 <= current_hour \/ current_hour < 6 THEN "dark" ELSE "light"

Op(call, color, args, text) ==
    [call |-> call, color |-> color, args |-> args, text |-> text]

\* __draw_circle(window, position, size, color)
draw_circle(position, size, color) ==
    << Op("aacircle", color, <<position[1], position[2], size>>, <<>>),
       Op("filled_circle", color, <<position[1], position[2], size>>, <<>>) >>

\* __draw_face(window, theme)
draw_face(th) ==
    draw_circle(CLOCK_POSITION, CLOCK_SIZE, THEMES[th].face_outer)
        \o draw_circle(CLOCK_POSITION, CLOCK_SIZE - 30, THEMES[th].face_middle)
        \o draw_circle(CLOCK_POSITION, CLOCK_SIZE - 40, THEMES[th].face_inner)

\* __draw_hour_marks() that runs one mark too far
draw_hour_marks_13(th) ==
    [ k \in 1 .. 13 |->
        Op("line", THEMES[th].mark_color,
           <<(k - 1) * 30, CLOCK_SIZE - 20, CLOCK_SIZE - 40, 5>>, <<>>) ]

\* __draw_hour_marks(window, theme): mark i is the segment at i*30 degrees
\* between the radii size-20 and size-40, width 5
draw_hour_marks(th) ==
    [ k \in 1 .. 12 |->
        Op("line", THEMES[th].mark_color,
           <<(k - 1) * 30, CLOCK_SIZE - 20, CLOCK_SIZE - 40, 5>>, <<>>) ]

\* __draw_hand() that takes the shadow colour from the light theme
draw_hand_light_shadow(angle, length, width, color, shadow, th) ==
    (IF shadow
     THEN << Op("line", THEMES["light"].shadow,
                <<CLOCK_POSITION[1] + 5, CLOCK_POSITION[2] + 5,
                  angle, length, width>>, <<>>) >>
     ELSE <<>>)
    \o << Op("line", color,
             <<CLOCK_POSITION[1], CLOCK_POSITION[2], angle, length, width>>,
             <<>>) >>

\* __draw_hand(window, angle, length, width, color, shadow, theme): a segment
\* is recorded as <<start x, start y, angle, length, width>>
draw_hand(angle, length, width, color, shadow, th) ==
    (IF shadow
     THEN << Op("line", THEMES[th].shadow,
                <<CLOCK_POSITION[1] + 5, CLOCK_POSITION[2] + 5,
                  angle, length, width>>, <<>>) >>
     ELSE <<>>)
    \o << Op("line", color,
             <<CLOCK_POSITION[1], CLOCK_POSITION[2], angle, length, width>>,
             <<>>) >>

\* __draw_info_panel(window, theme): f"{self.current_date} | {self.weather}"
draw_info_panel(date, w, th) ==
    << Op("blit", THEMES[th].text_color, <<CLOCK_POSITION[1], 50>>,
          date \o <<" ", "|", " ">> \o w) >>

----------------------------------------------------------------------------
(* The main script *)

\* a loop body that draws before it updates
LoopNext_draw_first(p) ==
    CASE p = "poll"    -> "draw"
      [] p = "draw"    -> "update"
      [] p = "update"  -> "present"
      [] p = "present" -> "tick"
      [] p = "tick"    -> "poll"

\* the statement that follows each phase of the loop body (lines 167-176)
LoopNext(p) ==
    CASE p = "poll"    -> "update"
      [] p = "update"  -> "draw"
      [] p = "draw"    -> "present"
      [] p = "present" -> "tick"
      [] p = "tick"    -> "poll"

\* an event test that takes every event for QUIT
IsQuit_any_event(event) == TRUE

\* event.type == pygame.QUIT
IsQuit(event) == event = "QUIT"

Init ==
    /\ pc = "init"
    /\ hour = 0
    /\ minute = 0
    /\ second = 0
    /\ current_date = <<>>
    /\ weather = <<>>
    /\ theme = "none"
    /\ surface = <<>>
    /\ windowOpen = TRUE
    /\ wallHour \in Hours
    /\ now = Reading(wallHour, StartSample)
    /\ response = NoResponse
    /\ fetches = 0
    /\ quitSeen = FALSE
    /\ phases = <<>>

\* analog_clock = AnalogClock(250, (300, 300)): __init__, which ends with
\* the call of update_weather()
Construct ==
    /\ pc = "init"
    /\ \E resp \in Responses :
        /\ response' = resp
        /\ weather' = update_weather(FETCHING, resp)
    /\ hour' = 0
    /\ minute' = 0
    /\ second' = 0
    /\ fetches' = fetches + 1
    /\ pc' = "poll"
    /\ UNCHANGED <<current_date, theme, surface, windowOpen, wallHour, now,
                   quitSeen, phases>>

\* for event in pygame.event.get(): ... ; the first QUIT event leaves the loop
PollEvents ==
    /\ pc = "poll"
    /\ \E evs \in EventBatches :
        /\ quitSeen' = (\E i \in 1 .. Len(evs) : evs[i] = "QUIT")
        /\ pc' = IF \E i \in 1 .. Len(evs) : IsQuit(evs[i])
                 THEN "quit"
                 ELSE LoopNext("poll")
    /\ phases' = <<"poll">>
    /\ UNCHANGED <<hour, minute, second, current_date, weather, theme,
                   surface, windowOpen, wallHour, now, response, fetches>>

\* update() that also fetches the weather again
Update_refetch ==
    /\ pc = "update"
    /\ \E s \in Samples :
        LET t == Reading(wallHour, s)
        IN  /\ now' = t
            /\ hour' = Hour12(t)
            /\ minute' = t.minute
            /\ second' = SecondOf(t)
            /\ current_date' = strftime(t)
    /\ \E resp \in Responses :
        /\ response' = resp
        /\ weather' = update_weather(weather, resp)
    /\ fetches' = fetches + 1
    /\ phases' = Append(phases, "update")
    /\ pc' = LoopNext("update")
    /\ UNCHANGED <<theme, surface, windowOpen, wallHour, quitSeen>>

\* analog_clock.update()
Update ==
    /\ pc = "update"
    /\ \E s \in Samples :
        LET t == Reading(wallHour, s)
        IN  /\ now' = t
            /\ hour' = Hour12(t)
            /\ minute' = t.minute
            /\ second' = SecondOf(t)
            /\ current_date' = strftime(t)
    /\ phases' = Append(phases, "update")
    /\ pc' = LoopNext("update")
    /\ UNCHANGED <<weather, theme, surface, windowOpen, wallHour, response,
                   fetches, quitSeen>>

\* draw(), lines 94-95: theme = self.get_theme(); window.fill(...)
DrawBegin ==
    /\ pc = "draw"
    /\ LET th == get_theme(wallHour)
       IN  /\ theme' = th
           /\ surface' =
                Append(surface, Op("fill", THEMES[th].background, <<>>, <<>>))
    /\ pc' = "draw_info"
    /\ UNCHANGED <<hour, minute, second, current_date, weather, windowOpen,
                   wallHour, now, response, fetches, quitSeen, phases>>

\* draw(), line 96; reading self.current_date before update() has set it
\* raises AttributeError, which nothing catches
DrawInfo ==
    /\ pc = "draw_info"
    /\ IF current_date = <<>>
       THEN /\ pc' = "crashed"
            /\ surface' = surface
       ELSE /\ pc' = "draw_face"
            /\ surface' = surface \o draw_info_panel(current_date, weather, theme)
    /\ UNCHANGED <<hour, minute, second, current_date, weather, theme,
                   windowOpen, wallHour, now, response, fetches, quitSeen,
                   phases>>

\* draw(), line 97
DrawFace ==
    /\ pc = "draw_face"
    /\ surface' = surface \o draw_face(theme)
    /\ pc' = "draw_marks"
    /\ UNCHANGED <<hour, minute, second, current_date, weather, theme,
                   windowOpen, wallHour, now, response, fetches, quitSeen,
                   phases>>

\* draw(), line 98
DrawMarks ==
    /\ pc = "draw_marks"
    /\ surface' = surface \o draw_hour_marks(theme)
    /\ pc' = "draw_hour"
    /\ UNCHANGED <<hour, minute, second, current_date, weather, theme,
                   windowOpen, wallHour, now, response, fetches, quitSeen,
                   phases>>

\* draw(), line 99: angle self.hour * 30 + self.minute * 0.5
DrawHourHand ==
    /\ pc = "draw_hour"
    /\ surface' = surface \o
            draw_hand(hour * 30 * SCALE + minute * (SCALE \div 2),
                      CLOCK_SIZE * 5, 8, THEMES[theme].hand_hour, TRUE, theme)
    /\ pc' = "draw_minute"
    /\ UNCHANGED <<hour, minute, second, current_date, weather, theme,
                   windowOpen, wallHour, now, response, fetches, quitSeen,
                   phases>>

\* draw(), line 100: angle self.minute * 6
DrawMinuteHand ==
    /\ pc = "draw_minute"
    /\ surface' = surface \o
            draw_hand(minute * 6 * SCALE,
                      CLOCK_SIZE * 7, 6, THEMES[theme].hand_minute, TRUE, theme)
    /\ pc' = "draw_second"
    /\ UNCHANGED <<hour, minute, second, current_date, weather, theme,
                   windowOpen, wallHour, now, response, fetches, quitSeen,
                   phases>>

\* draw(), line 101: angle self.second * 6
DrawSecondHand ==
    /\ pc = "draw_second"
    /\ surface' = surface \o
            draw_hand(second * 6,
                      CLOCK_SIZE * 9, 3, THEMES[theme].hand_second, TRUE, theme)
    /\ pc' = "draw_cap"
    /\ UNCHANGED <<hour, minute, second, current_date, weather, theme,
                   windowOpen, wallHour, now, response, fetches, quitSeen,
                   phases>>

\* draw(), line 102, and the return to the main loop
DrawCap ==
    /\ pc = "draw_cap"
    /\ surface' = surface \o
            draw_circle(CLOCK_POSITION, 10, THEMES[theme].face_outer)
    /\ theme' = "none"
    /\ phases' = Append(phases, "draw")
    /\ pc' = LoopNext("draw")
    /\ UNCHANGED <<hour, minute, second, current_date, weather, windowOpen,
                   wallHour, now, response, fetches, quitSeen>>

\* pygame.display.update(): the recorded frame goes to the display
Present ==
    /\ pc = "present"
    /\ surface' = <<>>
    /\ phases' = Append(phases, "present")
    /\ pc' = LoopNext("present")
    /\ UNCHANGED <<hour, minute, second, current_date, weather, theme,
                   windowOpen, wallHour, now, response, fetches, quitSeen>>

\* clock.tick(60)
Tick ==
    /\ pc = "tick"
    /\ phases' = Append(phases, "tick")
    /\ pc' = LoopNext("tick")
    /\ UNCHANGED <<hour, minute, second, current_date, weather, theme,
                   surface, windowOpen, wallHour, now, response, fetches,
                   quitSeen>>

\* pygame.quit()
Quit ==
    /\ pc = "quit"
    /\ windowOpen' = FALSE
    /\ pc' = "exit"
    /\ UNCHANGED <<hour, minute, second, current_date, weather, theme,
                   surface, wallHour, now, response, fetches, quitSeen,
                   phases>>

\* exit()
Exit ==
    /\ pc = "exit"
    /\ pc' = "exited"
    /\ UNCHANGED <<hour, minute, second, current_date, weather, theme,
                   surface, windowOpen, wallHour, now, response, fetches,
                   quitSeen, phases>>

\* the wall clock passes into the next hour while the process runs
ClockAdvance ==
    /\ pc \notin {"exited", "crashed"}
    /\ (wallHour + 1 - now.hour) % 24 <= MaxClockSteps
    /\ wallHour' = (wallHour + 1) % 24
    /\ UNCHANGED <<pc, hour, minute, second, current_date, weather, theme,
                   surface, windowOpen, now, response, fetches, quitSeen,
                   phases>>

Next ==
    \/ Construct
    \/ PollEvents
    \/ Update
    \/ DrawBegin
    \/ DrawInfo
    \/ DrawFace
    \/ DrawMarks
    \/ DrawHourHand
    \/ DrawMinuteHand
    \/ DrawSecondHand
    \/ DrawCap
    \/ Present
    \/ Tick
    \/ Quit
    \/ Exit
    \/ ClockAdvance

Spec == Init /\ [][Next]_vars

----------------------------------------------------------------------------
(* Properties *)

Constructed == pc # "init"

FetchFailed == response.raised \/ response.status_code # 200

\* the hand segments of the recorded frame: lines that start at the centre
HandOps ==
    SelectSeq(surface,
              LAMBDA o : /\ o.call = "line"
                         /\ Len(o.args) = 5
                         /\ o.args[1] = 300 /\ o.args[2] = 300)

FrameDrawn == pc = "present"

\* C1: after construction, a failed fetch (an exception or a status other
\* than 200) has left the weather text equal to "Weather unavailable".
C1_FailedFetchStoresFallback ==
    (Constructed /\ FetchFailed) => weather = FALLBACK

\* s with its leading and trailing whitespace removed is r
IsTrimOf(r, s) ==
    /\ \E i \in 1 .. Len(s) + 1, j \in 0 .. Len(s) :
        /\ r = SubSeq(s, i, j)
        /\ \A k \in 1 .. i - 1 : s[k] \in Whitespace
        /\ \A k \in j + 1 .. Len(s) : s[k] \in Whitespace
    /\ r # <<>> => /\ r[1] \notin Whitespace
                   /\ r[Len(r)] \notin Whitespace

\* C2: after a fetch answered with status 200, the weather text is the body
\* with its leading and trailing whitespace removed and nothing else changed.
C2_OkBodyStoredTrimmed ==
    (Constructed /\ ~response.raised /\ response.status_code = 200)
        => IsTrimOf(weather, response.text)

C2_Witness ==
    /\ Constructed
    /\ response.status_code = 200
    /\ response.text = ExampleBody
    /\ weather = <<"+", "1", "4", "deg", "C", " ", "P", "a", "r", "t", "l", "y",
                   " ", "c", "l", "o", "u", "d", "y">>

\* C3: the theme draw() obtains from get_theme() is the dark one exactly when
\* the wall-clock hour read is >= 18 or < 6, and the light one otherwise; it
\* is determined by that hour alone.
C3_ThemeByHour ==
    [][(pc = "draw" /\ pc' = "draw_info") =>
          /\ theme' = (IF wallHour >= 18 \/ wallHour < 6 THEN "dark" ELSE "light")
          /\ surface'[Len(surface')].color =
                (IF wallHour >= 18 \/ wallHour < 6
                 THEN <<30, 30, 30>> ELSE <<225, 239, 240>>)]_vars

C3_Witness ==
    /\ pc = "draw_info"
    /\ wallHour = 18
    /\ now.hour = 18
    /\ theme = "dark"
    /\ surface[Len(surface)].color = <<30, 30, 30>>

\* C4: in a drawn frame the hour hand's angle is (hour mod 12)*30 +
\* minute*0.5 degrees for the time update() read, and lies in [0, 360).
C4_HourAngle ==
    FrameDrawn =>
        /\ HandOps[1].args[3] =
                (now.hour % 12) * 30 * 1000000 + now.minute * 500000
        /\ HandOps[1].args[3] >= 0
        /\ HandOps[1].args[3] < 360 * 1000000

C4_Witness ==
    /\ FrameDrawn
    /\ now.hour = 23
    /\ now.minute = 59
    /\ HandOps[1].args[3] = 359500000

IsCircleAt(i, radius) ==
    /\ surface[i].call = "aacircle"
    /\ surface[i + 1].call = "filled_circle"
    /\ surface[i].args = <<300, 300, radius>>
    /\ surface[i + 1].args = <<300, 300, radius>>
    /\ surface[i + 1].color = surface[i].color

IsHandAt(i, length, width) ==
    /\ surface[i].call = "line"
    /\ surface[i].color \in {<<0, 0, 0, 50>>, <<0, 0, 0, 80>>}
    /\ surface[i].args[1] = 305 /\ surface[i].args[2] = 305
    /\ surface[i + 1].call = "line"
    /\ surface[i + 1].args[1] = 300 /\ surface[i + 1].args[2] = 300
    /\ surface[i + 1].args[3] = surface[i].args[3]
    /\ surface[i].args[4] = length /\ surface[i + 1].args[4] = length
    /\ surface[i].args[5] = width /\ surface[i + 1].args[5] = width

\* C5: one draw() issues, in this order, the background fill, the info text,
\* 3 face circles (outer, middle, inner), 12 hour marks, the hour, minute and
\* second hands each right after its one shadow segment, and 1 centre cap,
\* and nothing else.
C5_DrawSequence ==
    FrameDrawn =>
        /\ Len(surface) = 28
        /\ surface[1].call = "fill"
        /\ surface[2].call = "blit"
        /\ IsCircleAt(3, 250)
        /\ IsCircleAt(5, 220)
        /\ IsCircleAt(7, 210)
        /\ \A i \in 9 .. 20 :
            /\ surface[i].call = "line"
            /\ surface[i].args = <<(i - 9) * 30, 230, 210, 5>>
        /\ IsHandAt(21, 1250, 8)
        /\ IsHandAt(23, 1750, 6)
        /\ IsHandAt(25, 2250, 3)
        /\ IsCircleAt(27, 10)

C5_Witness ==
    /\ FrameDrawn
    /\ Len(surface) = 28
    /\ surface[28].call = "filled_circle"
    /\ Len(HandOps) = 3

\* C6: update_weather() runs exactly once, in the constructor; afterwards no
\* step changes the weather text, and the info text of every frame ends with
\* that text.
C6_WeatherFrozen ==
    /\ [](Constructed => fetches = 1)
    /\ [](~Constructed => fetches = 0)
    /\ [][Constructed => weather' = weather]_vars
    /\ [](Len(surface) >= 2 =>
            LET txt == surface[2].text
            IN  /\ Len(txt) >= Len(weather)
                /\ SubSeq(txt, Len(txt) - Len(weather) + 1, Len(txt)) = weather)

C6_Witness ==
    /\ pc = "poll"
    /\ Len(phases) = 5
    /\ fetches = 1
    /\ response.text = <<" ", "x">>
    /\ weather = <<"x">>

Terminal == {"quit", "exit", "exited"}

\* what update(), draw(), the display update and the frame tick write
FrameState ==
    <<hour, minute, second, current_date, now, surface, theme, phases>>

\* C7: the script leaves the loop only on a QUIT event; it then releases the
\* window (pygame.quit) before it exits, and runs no update, draw, display
\* update or frame tick after the QUIT was polled.
C7_QuitOnly ==
    /\ [](pc # "crashed")
    /\ [](pc \in Terminal <=> quitSeen)
    /\ [](pc \in {"exit", "exited"} <=> ~windowOpen)
    /\ [][(pc \in Terminal) =>
            /\ pc' \in Terminal
            /\ (UNCHANGED FrameState)]_vars

C7_Witness ==
    /\ pc = "exited"
    /\ quitSeen
    /\ ~windowOpen
    /\ Len(phases) = 1
    /\ current_date # <<>>

\* C8: in a drawn frame the second hand's angle is (second +
\* microsecond/1000000)*6 degrees for the time update() read, and lies in
\* [0, 360); a later reading within the same second gives a larger angle.
C8_SecondAngle ==
    /\ [](FrameDrawn =>
            /\ HandOps[3].args[3] =
                    (now.second * 1000000 + now.microsecond) * 6
            /\ HandOps[3].args[3] >= 0
            /\ HandOps[3].args[3] < 360 * 1000000)
    /\ [][(/\ pc = "update"
           /\ pc' # "update"
           /\ now'.second = now.second
           /\ now'.microsecond > now.microsecond)
          => second' * 6 > second * 6]_vars

C8_Witness ==
    /\ FrameDrawn
    /\ now.second = 59
    /\ now.microsecond = 999999
    /\ HandOps[3].args[3] = 359999994

\* the THEMES key of the i-th call of a draw()
KeyAt(i) ==
    CASE i = 1 -> "background"
      [] i = 2 -> "text_color"
      [] i \in {3, 4, 27, 28} -> "face_outer"
      [] i \in {5, 6} -> "face_middle"
      [] i \in {7, 8} -> "face_inner"
      [] i \in 9 .. 20 -> "mark_color"
      [] i \in {21, 23, 25} -> "shadow"
      [] i = 22 -> "hand_hour"
      [] i = 24 -> "hand_minute"
      [] i = 26 -> "hand_second"

\* C9: all calls of one draw() take their colours from one theme, selected
\* once at the start of the call, whatever the wall clock does meanwhile.
C9_OneThemePerFrame ==
    /\ [](\E th \in {"light", "dark"} :
            \A i \in 1 .. Len(surface) :
                surface[i].color = THEMES[th][KeyAt(i)])
    /\ [][theme # "none" => theme' \in {theme, "none"}]_vars

C9_Witness ==
    /\ FrameDrawn
    /\ Len(surface) = 28
    /\ surface[1].color = <<225, 239, 240>>
    /\ surface[25].color = <<0, 0, 0, 50>>
    /\ wallHour = 18

InDraw ==
    pc \in {"draw", "draw_info", "draw_face", "draw_marks", "draw_hour",
            "draw_minute", "draw_second", "draw_cap"}

\* C10: an iteration without QUIT runs poll, update, draw, display update
\* and tick in that order, once each; draw() never runs before update(), so
\* the date text is set whenever the info panel is drawn.
C10_PhaseOrder ==
    /\ pc # "crashed"
    /\ pc = "poll" =>
         phases \in {<<>>, <<"poll", "update", "draw", "present", "tick">>}
    /\ pc = "update" => phases = <<"poll">>
    /\ InDraw => phases = <<"poll", "update">> /\ current_date # <<>>
    /\ pc = "present" => phases = <<"poll", "update", "draw">>
    /\ pc = "tick" => phases = <<"poll", "update", "draw", "present">>

C10_Witness ==
    /\ pc = "poll"
    /\ phases = <<"poll", "update", "draw", "present", "tick">>
    /\ ~quitSeen
    /\ current_date =
         <<"M", "o", "n", "d", "a", "y", ",", " ",
           "D", "e", "c", "e", "m", "b", "e", "r", " ", "0", "9", ",", " ",
           "2", "0", "2", "4">>

============================================================================
